---- MODULE Spec2Model ----
(***************************************************************************)
(* Token lifecycle of the twitter-skill CLI: the OAuth 2.0 PKCE            *)
(* authorization flow (performAuth), the token store (findTokenPath,       *)
(* saveToken) and the auto-refreshing getValidAccessToken.                 *)
(*                                                                         *)
(* The model follows the auth library that main() of scripts/twitter.ts     *)
(* calls: performAuth(global), with the project-local token file and the   *)
(* global fallback.                                                        *)
(*                                                                         *)
(* Time is in milliseconds.  Strings sent over HTTP are modelled by short  *)
(* strings; Null stands for a missing query parameter (searchParams.get    *)
(* returns null).  Tokens issued by the provider are positive integers     *)
(* (the k-th token response carries access_token k and refresh_token k),   *)
(* NoToken stands for a missing or empty token field (both falsy in JS).   *)
(***************************************************************************)
EXTENDS Integers, Sequences, FiniteSets, TLC

\* ------------------------------------------------------------------ bounds
MaxEpoch == 1      \* the clock runs to MaxEpoch * timeoutMs
MaxIssued == 2     \* token responses the provider issues in one behaviour
MaxLimit == 10     \* largest x-rate-limit-limit / x-rate-limit-remaining value

\* ------------------------------------------------------- program constants
bufferMs == 300000
timeoutMs == 300000
defaultExpiresIn == 7200

Null == "null"
NoToken == 0
NoExpiresIn == -1

Scopes == {"project", "global"}

\* JS truthiness of a string-or-null query parameter / response field.
Truthy(s) == s \notin {Null, ""}

\* ------------------------------------------------------ environment inputs
CodeVals == {Null, "", "c1", "c2"}
StateVals == {"s1"}                 \* what generateState may return
StateParamVals == {Null, "s2"} \cup StateVals
ErrorVals == {Null, "access_denied"}   \* an OAuth error code is never empty
DescVals == {Null, "user said no"}
VerifierVals == {"v1"}              \* what generateCodeVerifier may return
ExpiresInVals == {NoExpiresIn, 0, 60, 300}

\* The query parameters of one request to the local callback server.
Requests ==
  { r \in [code : CodeVals, state : StateParamVals, error : ErrorVals,
           error_description : DescVals] :
      r.error_description # Null => Truthy(r.error) }

NoRequest ==
  [code |-> Null, state |-> Null, error |-> Null, error_description |-> Null]

\* The authorization code the provider issued for the pending authorization.
GenuineCode == "c1"

VARIABLES
  now,         \* Date.now()
  creds,       \* [file, op]: what the credential file / 1Password hold
  files,       \* files[scope]: the token file at the project / global path
  gitignore,   \* the project's .gitignore: [exists, content]
  issued,      \* provider: number of token responses issued so far
  validRT,     \* provider: refresh tokens it still accepts
  au,          \* the current (or last) `auth` CLI invocation (performAuth)
  srv,         \* its callback server, timer and promise
  gv,          \* the current (or last) getValidAccessToken call
  usedRT,      \* history: refresh tokens consumed by a successful refresh
  failedRT,    \* history: refresh tokens whose refresh request has failed
  rd,          \* the last loadToken / checkAuth call
  gx,          \* a getValidAccessToken call of a second, concurrent invocation
  cli          \* the current (or last) run of main() for a command other than auth

vars == <<now, creds, files, gitignore, issued, validRT, au, srv, gv, usedRT, failedRT, rd, gx, cli>>

\* ------------------------------------------------------------- token store
\* A token file: json tells whether its content is the JSON text of a record
\* ("ok"), nothing ("empty": opened for writing, not written yet) or the
\* bytes of two writes ("torn"); JSON.parse throws on the last two.
NoFile ==
  [exists |-> FALSE, json |-> "ok", access_token |-> NoToken,
   refresh_token |-> NoToken, expires_at |-> 0, response |-> 0]

TruncatedFile == [NoFile EXCEPT !.exists = TRUE, !.json = "empty"]
TornFile == [NoFile EXCEPT !.exists = TRUE, !.json = "torn"]

\* TokenData as built from a token-endpoint response (response = which one).
TokenData(at, rt, exp, resp) ==
  [exists |-> TRUE, json |-> "ok", access_token |-> at, refresh_token |-> rt,
   expires_at |-> exp, response |-> resp]

\* findTokenPath with the global file looked up first.
findTokenPathGlobalFirst(fs) ==
  IF fs["global"].exists THEN "global"
  ELSE IF fs["project"].exists THEN "project"
  ELSE Null

\* findTokenPath: project-local first, then the global fallback, else null.
findTokenPath(fs) ==
  IF fs["project"].exists THEN "project"
  ELSE IF fs["global"].exists THEN "global"
  ELSE Null

\* saveToken that ignores its `global` argument.
saveTokenProjectOnly(fs, tokenData, global) ==
  [fs EXCEPT !["project"] = tokenData]

\* saveToken(tokenData, global): overwrite the whole file of one scope.
saveToken(fs, tokenData, global) ==
  [fs EXCEPT ![IF global THEN "global" ELSE "project"] = tokenData]

\* credentials.json: absent (or unreadable), or a JSON object whose
\* client_id / client_secret may be missing (Null) or empty.
NoCredentialsFile == [exists |-> FALSE, client_id |-> Null, client_secret |-> Null]
CredentialsFile(id, secret) ==
  [exists |-> TRUE, client_id |-> id, client_secret |-> secret]

\* The 1Password CLI: not installed, or installed with what `op read` gives
\* for the two references (Null when the read fails).
No1Password == [available |-> FALSE, client_id |-> Null, client_secret |-> Null]
OnePassword(id, secret) ==
  [available |-> TRUE, client_id |-> id, client_secret |-> secret]

\* What loadCredentials returns; found = FALSE stands for its throw.
NoCredentials == [found |-> FALSE, client_id |-> Null, client_secret |-> Null]
Credentials(id, secret) ==
  [found |-> TRUE, client_id |-> id, client_secret |-> secret]

is1PasswordAvailable(op) == op.available

loadCredentialsFrom1Password(op) ==
  IF Truthy(op.client_id) /\ Truthy(op.client_secret)
    THEN Credentials(op.client_id, op.client_secret)
    ELSE NoCredentials

\* fs.writeFile(tokenPath, ...) in its two file operations: open with flag
\* 'w' (create or truncate), then write at the start of the file.  A write
\* onto bytes another process has written since the open replaces them all
\* only if it is at least as long (fits).
openTruncate(fs, global) ==
  [fs EXCEPT ![IF global THEN "global" ELSE "project"] = TruncatedFile]

writeContent(fs, tokenData, global, fits) ==
  [fs EXCEPT ![IF global THEN "global" ELSE "project"] =
     IF @.json = "empty" \/ fits THEN tokenData ELSE TornFile]

\* loadCredentials with 1Password asked first.
loadCredentials1PasswordFirst(c) ==
  IF is1PasswordAvailable(c.op) /\ loadCredentialsFrom1Password(c.op).found
    THEN loadCredentialsFrom1Password(c.op)
  ELSE IF c.file.exists /\ Truthy(c.file.client_id) /\ Truthy(c.file.client_secret)
    THEN Credentials(c.file.client_id, c.file.client_secret)
  ELSE NoCredentials

\* loadCredentials: the credential file when it has both fields, else
\* 1Password when it supplies both, else it throws.
loadCredentials(c) ==
  IF c.file.exists /\ Truthy(c.file.client_id) /\ Truthy(c.file.client_secret)
    THEN Credentials(c.file.client_id, c.file.client_secret)
  ELSE IF is1PasswordAvailable(c.op) /\ loadCredentialsFrom1Password(c.op).found
    THEN loadCredentialsFrom1Password(c.op)
  ELSE NoCredentials

\* `x || 7200` on the expires_in of a token response.
OrDefault(expires_in) ==
  IF expires_in \in {NoExpiresIn, 0} THEN defaultExpiresIn ELSE expires_in

\* expires_at: Date.now() + (expires_in || 7200) * 1000
ExpiresAt(t, expires_in) == t + OrDefault(expires_in) * 1000

\* ---------------------------------------------------------------- gitignore
PAT == ".claude/*.local.*"
HDR == "# Twitter skill tokens (per-project auth)"
NL == "\n"

\* A line that holds the pattern inside a longer text (a negated rule).
NEGPAT == "!.claude/*.local.*"

\* content.includes(pattern) is a substring test: a line counts when it is
\* the pattern or has it inside.
Substring(tok, line) == line = tok \/ (tok = PAT /\ line = NEGPAT)
Includes(content, tok) == \E i \in 1..Len(content) : Substring(tok, content[i])
EndsWithNL(content) == Len(content) > 0 /\ content[Len(content)] = NL

\* ensureGitignore that writes a fresh file whenever the pattern is missing.
ensureGitignoreOverwrite(g) ==
  IF g.exists /\ Includes(g.content, PAT)
    THEN g
    ELSE [exists |-> TRUE, content |-> <<HDR, NL, PAT, NL>>]

ensureGitignore(g) ==
  IF ~g.exists
    THEN [exists |-> TRUE, content |-> <<HDR, NL, PAT, NL>>]
  ELSE IF Includes(g.content, PAT)
    THEN g
  ELSE IF EndsWithNL(g.content)
    THEN [g EXCEPT !.content = @ \o <<NL, HDR, NL, PAT, NL>>]
  ELSE [g EXCEPT !.content = @ \o <<NL, NL, HDR, NL, PAT, NL>>]

\* --------------------------------------------------------------------- PKCE
\* generateCodeChallenge that passes the verifier on unhashed.
generateCodeChallengePlain(verifier) == <<"plain", verifier>>

\* generateCodeChallenge: base64url(SHA-256(verifier)), an injective image.
generateCodeChallenge(verifier) == <<"S256", verifier>>

\* ------------------------------------------------------------ initial state
\* An Error: which one, and for the OAuth error its `${error}: ${description}`.
NoFailure == [name |-> Null, error |-> Null, detail |-> Null]
Failure(name, error, detail) == [name |-> name, error |-> error, detail |-> detail]

\* The callback promise: pending, resolved with a code, or rejected.
Pending == [status |-> "pending", code |-> Null, failure |-> NoFailure]
Resolved(code) == [status |-> "resolved", code |-> code, failure |-> NoFailure]
Rejected(failure) == [status |-> "rejected", code |-> Null, failure |-> failure]

IdleAuth ==
  [pc |-> "idle", global |-> FALSE, credentials |-> NoCredentials,
   state |-> Null, codeVerifier |-> Null,
   codeChallenge |-> <<>>,
   authUrl |-> [client_id |-> Null, state |-> Null, code_challenge |-> <<>>,
                code_challenge_method |-> Null],
   exchangeCode |-> Null, exchangeVerifier |-> Null,
   exchangeSent |-> FALSE, responded |-> FALSE,
   response |-> [access_token |-> NoToken, refresh_token |-> NoToken,
                 expires_in |-> NoExpiresIn, error |-> FALSE],
   savedAt |-> 0, failure |-> NoFailure,
   filesBefore |-> [s \in Scopes |-> NoFile]]

IdleServer ==
  [listening |-> FALSE, timerPending |-> FALSE, deadline |-> 0,
   keptAlive |-> FALSE, lastStatus |-> 0,
   promise |-> Pending, settledBy |-> "none", lastRequest |-> NoRequest,
   lateRequest |-> FALSE, lateTimer |-> FALSE]

IdleCall ==
  [pc |-> "idle", credentials |-> NoCredentials,
   tokenPath |-> Null, loaded |-> NoFile, sentRT |-> NoToken,
   refreshSent |-> 0, startedAt |-> 0, result |-> NoToken, failure |-> Null,
   response |-> [access_token |-> NoToken, refresh_token |-> NoToken,
                 expires_in |-> NoExpiresIn, error |-> FALSE],
   pending |-> NoFile, saveOrder |-> 0,
   filesBefore |-> [s \in Scopes |-> NoFile]]

IdleRead ==
  [op |-> "idle", tokenPath |-> Null, tokenData |-> NoFile, failure |-> Null,
   authenticated |-> FALSE, expiresAt |-> 0, startedAt |-> 0,
   filesBefore |-> [s \in Scopes |-> NoFile]]

\* process.exit has not been called.
Running == -1

\* No [rate-limit] line has been logged.
NotLogged == [logged |-> FALSE, remaining |-> 0, limit |-> 0, suffix |-> ""]

\* One run of main(): what it has printed on stdout, its exit status, and how
\* many getValidAccessToken calls, refresh requests and API requests it made.
IdleCli ==
  [pc |-> "idle", command |-> Null, args |-> <<>>, ids |-> 0,
   stdout |-> <<>>, exit |-> Running, error |-> Null,
   tokenCalls |-> 0, refreshes |-> 0, requests |-> 0, endpoints |-> <<>>,
   credentialsLoaded |-> FALSE, rateLimit |-> NotLogged,
   filesBefore |-> [s \in Scopes |-> NoFile]]

CredConfigs ==
  { [file |-> CredentialsFile("idF", "secretF"), op |-> No1Password],
    [file |-> NoCredentialsFile, op |-> No1Password] }

GitignoreInits ==
  { [exists |-> FALSE, content |-> <<>>] }

Init ==
  /\ now = 0
  /\ creds \in CredConfigs
  /\ files = [s \in Scopes |-> NoFile]
  /\ gitignore \in GitignoreInits
  /\ issued = 0
  /\ validRT = {}
  /\ au = IdleAuth
  /\ srv = IdleServer
  /\ gv = IdleCall
  /\ usedRT = {}
  /\ failedRT = {}
  /\ rd = IdleRead
  /\ gx = IdleCall
  /\ cli = IdleCli

\* No CLI invocation is in the middle of its work (a human runs one command
\* at a time).  A finished `auth` process may still be alive, waiting for
\* its never-cleared timer.
AuthBusy == au.pc \in {"waiting", "exchanging"}
InFlight(call) == call.pc \in {"refreshing", "answered", "writing"}
CallBusy == InFlight(gv) \/ InFlight(gx)

\* -------------------------------------------------------------------- clock
\* The clock moves in steps of five minutes, and never past the deadline of
\* a pending timer: Node runs a due timer before it polls for I/O.
MaxNow == MaxEpoch * timeoutMs

TickTargets ==
  { t \in {now + timeoutMs} :
      t <= MaxNow /\ (srv.timerPending => t <= srv.deadline) }

Tick ==
  /\ \E t \in TickTargets : now' = t
  /\ UNCHANGED <<creds, files, gitignore, issued, validRT, au, srv, gv, usedRT, failedRT, rd, gx, cli>>

\* ------------------------------------------------------------- performAuth
\* A promise that every resolve / reject call overwrites.
SettleOverwrite(promise, outcome) == outcome

\* resolve / reject of the callback promise: only the first call settles it.
Settle(promise, outcome) ==
  IF promise.status = "pending" THEN outcome ELSE promise

\* Handler with a missing state parameter let through (state compared only
\* when the request carries one).
HandlerMissingStateOk(req, state) ==
  IF Truthy(req.error)
    THEN [status |-> 400, close |-> TRUE, call |-> "rejected", code |-> Null,
          failure |-> Failure("OAuthDenied", req.error,
                        IF Truthy(req.error_description)
                          THEN req.error_description ELSE "")]
  ELSE IF req.state # Null /\ req.state # state
    THEN [status |-> 400, close |-> TRUE, call |-> "rejected", code |-> Null,
          failure |-> Failure("CsrfMismatch", Null, Null)]
  ELSE IF Truthy(req.code)
    THEN [status |-> 200, close |-> TRUE, call |-> "resolved",
          code |-> req.code, failure |-> NoFailure]
  ELSE [status |-> 404, close |-> FALSE, call |-> "none", code |-> Null,
        failure |-> NoFailure]

\* Handler with the error branch tested last, after the code branch.
HandlerErrorLast(req, state) ==
  IF req.state # state /\ ~Truthy(req.error)
    THEN [status |-> 400, close |-> TRUE, call |-> "rejected", code |-> Null,
          failure |-> Failure("CsrfMismatch", Null, Null)]
  ELSE IF Truthy(req.code) /\ req.state = state
    THEN [status |-> 200, close |-> TRUE, call |-> "resolved",
          code |-> req.code, failure |-> NoFailure]
  ELSE IF Truthy(req.error)
    THEN [status |-> 400, close |-> TRUE, call |-> "rejected", code |-> Null,
          failure |-> Failure("OAuthDenied", req.error,
                        IF Truthy(req.error_description)
                          THEN req.error_description ELSE "")]
  ELSE [status |-> 404, close |-> FALSE, call |-> "none", code |-> Null,
        failure |-> NoFailure]

\* Handler with the code branch tested before the state check.
HandlerCodeFirst(req, state) ==
  IF Truthy(req.error)
    THEN [status |-> 400, close |-> TRUE, call |-> "rejected", code |-> Null,
          failure |-> Failure("OAuthDenied", req.error,
                        IF Truthy(req.error_description)
                          THEN req.error_description ELSE "")]
  ELSE IF Truthy(req.code)
    THEN [status |-> 200, close |-> TRUE, call |-> "resolved",
          code |-> req.code, failure |-> NoFailure]
  ELSE IF req.state # state
    THEN [status |-> 400, close |-> TRUE, call |-> "rejected", code |-> Null,
          failure |-> Failure("CsrfMismatch", Null, Null)]
  ELSE [status |-> 404, close |-> FALSE, call |-> "none", code |-> Null,
        failure |-> NoFailure]

\* The request handler of the callback server.  It returns what the handler
\* does: the HTTP status it answers with, whether it calls server.close(),
\* and whether it calls resolve(code) or reject(error).
\*   `${error}: ${errorDescription || ""}`
Handler(req, state) ==
  IF Truthy(req.error)
    THEN [status |-> 400, close |-> TRUE, call |-> "rejected", code |-> Null,
          failure |-> Failure("OAuthDenied", req.error,
                        IF Truthy(req.error_description)
                          THEN req.error_description ELSE "")]
  ELSE IF req.state # state
    THEN [status |-> 400, close |-> TRUE, call |-> "rejected", code |-> Null,
          failure |-> Failure("CsrfMismatch", Null, Null)]
  ELSE IF Truthy(req.code)
    THEN [status |-> 200, close |-> TRUE, call |-> "resolved",
          code |-> req.code, failure |-> NoFailure]
  ELSE [status |-> 404, close |-> FALSE, call |-> "none", code |-> Null,
        failure |-> NoFailure]

\* A timer that is due only once the clock is past its deadline.
TimerDueLate(t, deadline) == t > deadline

\* setTimeout(..., 300000): the timer is due once its delay has passed.
TimerDue(t, deadline) == t >= deadline

\* performAuth up to the await of the callback promise.  `auth` is a new CLI
\* invocation; an uncaught error reaches main's catch, fail() and
\* process.exit(1).
PerformAuthFrom(global, verifiers) ==
  /\ ~AuthBusy /\ ~CallBusy
  /\ now + timeoutMs <= MaxNow
  /\ gv' = IdleCall
  /\ rd' = IdleRead
  /\ gx' = IdleCall
  /\ UNCHANGED <<now, creds, files, issued, validRT, usedRT, failedRT, cli>>
  /\ IF ~loadCredentials(creds).found
       THEN /\ au' = [IdleAuth EXCEPT !.pc = "failed", !.global = global,
                        !.failure = Failure("CredentialsMissing", Null, Null),
                        !.filesBefore = files]
            /\ srv' = IdleServer
            /\ UNCHANGED gitignore
       ELSE /\ gitignore' = IF global THEN gitignore ELSE ensureGitignore(gitignore)
            /\ \E codeVerifier \in verifiers, state \in StateVals :
                 LET codeChallenge == generateCodeChallenge(codeVerifier)
                 IN au' = [IdleAuth EXCEPT !.pc = "waiting", !.global = global,
                             !.credentials = loadCredentials(creds),
                             !.state = state, !.codeVerifier = codeVerifier,
                             !.codeChallenge = codeChallenge,
                             !.authUrl = [client_id |-> loadCredentials(creds).client_id,
                                          state |-> state,
                                          code_challenge |-> codeChallenge,
                                          code_challenge_method |-> "S256"],
                             !.filesBefore = files]
            /\ srv' = [IdleServer EXCEPT !.listening = TRUE,
                         !.timerPending = TRUE, !.deadline = now + timeoutMs]

PerformAuth(global) == PerformAuthFrom(global, VerifierVals)

\* What the settling of the promise does to performAuth: a rejection is
\* thrown up to main, which prints the error and exits (the timer dies with
\* the process); a resolution continues to the token-exchange fetch.
Continue(a, h) ==
  IF h.call = "rejected"
    THEN [a EXCEPT !.pc = "failed", !.failure = h.failure]
    ELSE [a EXCEPT !.pc = "exchanging", !.exchangeCode = h.code,
                   !.exchangeVerifier = a.codeVerifier, !.exchangeSent = TRUE]

\* One request reaches the callback server: while it listens, or later on a
\* connection kept alive from before server.close() (the process is alive
\* as long as performAuth has not failed).
CallbackRequest(req) ==
  /\ \/ au.pc = "waiting" /\ srv.listening
     \/ au.pc \in {"exchanging", "done"} /\ srv.keptAlive
  /\ srv.timerPending => ~TimerDue(now, srv.deadline)
  /\ LET h == Handler(req, au.state)
         settles == srv.promise.status = "pending" /\ h.call # "none"
         outcome == IF h.call = "resolved" THEN Resolved(h.code)
                    ELSE Rejected(h.failure)
     IN /\ srv' = [srv EXCEPT
                     !.listening = IF h.close THEN FALSE ELSE @,
                     !.keptAlive = TRUE,
                     !.lastStatus = IF srv.promise.status = "pending"
                                      THEN h.status ELSE @,
                     !.lastRequest = IF srv.promise.status = "pending"
                                       THEN req ELSE @,
                     !.promise = IF h.call = "none" THEN @ ELSE Settle(@, outcome),
                     !.settledBy = IF settles THEN "request" ELSE @,
                     !.lateRequest = IF srv.promise.status # "pending"
                                       THEN TRUE ELSE @,
                     !.timerPending = IF settles /\ h.call = "rejected"
                                        THEN FALSE ELSE @]
        /\ au' = IF settles THEN Continue(au, h) ELSE au
  /\ UNCHANGED <<now, creds, files, gitignore, issued, validRT, gv, usedRT, failedRT, rd, gx, cli>>

\* The 5-minute timer fires (it is never cleared, so it also fires after a
\* successful callback while the process is still alive).
TimeoutFire ==
  /\ srv.timerPending
  /\ TimerDue(now, srv.deadline)
  /\ LET settles == srv.promise.status = "pending"
     IN /\ srv' = [srv EXCEPT
                     !.listening = FALSE,
                     !.timerPending = FALSE,
                     !.promise = Settle(@, Rejected(Failure("AuthTimeout", Null, Null))),
                     !.settledBy = IF settles THEN "timer" ELSE @,
                     !.lateTimer = IF settles THEN @ ELSE TRUE]
        /\ au' = IF settles
                   THEN [au EXCEPT !.pc = "failed",
                            !.failure = Failure("AuthTimeout", Null, Null)]
                   ELSE au
  /\ UNCHANGED <<now, creds, files, gitignore, issued, validRT, gv, usedRT, failedRT, rd, gx, cli>>

\* ---------------------------------------------------------- token endpoint
TokenResponse(at, rt, expires_in, error) ==
  [access_token |-> at, refresh_token |-> rt, expires_in |-> expires_in,
   error |-> error]

\* The responses the token endpoint may give when it grants a request: the
\* full pair, or a grant with a field missing.  k is the new response's id.
GrantResponses(k) ==
  { TokenResponse(at, rt, e, FALSE) :
      at \in {k, NoToken}, rt \in {k, NoToken}, e \in ExpiresInVals }

ErrorResponse == TokenResponse(NoToken, NoToken, NoExpiresIn, TRUE)

\* The exchange result with the access token tested in place of the refresh
\* token.
ExchangeResultNoRefreshCheck(resp) ==
  IF resp.error THEN "TokenExchangeFailed"
  ELSE IF resp.access_token = NoToken THEN "MissingRefreshToken"
  ELSE "ok"

\* performAuth's handling of the exchange response, up to saveToken.
ExchangeResult(resp) ==
  IF resp.error THEN "TokenExchangeFailed"
  ELSE IF resp.refresh_token = NoToken THEN "MissingRefreshToken"
  ELSE "ok"

\* performAuth that saves the record before it tests the response.
PersistExchangeFirst(r, fs, tokenData, global) == saveToken(fs, tokenData, global)

\* performAuth's only write to the token store: saveToken comes after both
\* throws, so a failed exchange leaves the files as they are.
PersistExchange(r, fs, tokenData, global) ==
  IF r = "ok" THEN saveToken(fs, tokenData, global) ELSE fs

\* The token endpoint answers the authorization_code request and performAuth
\* runs to its end.
ExchangeResponse ==
  /\ au.pc = "exchanging"
  /\ \E resp \in {ErrorResponse} \cup
                 (IF au.exchangeCode = GenuineCode /\ issued < MaxIssued
                    THEN GrantResponses(issued + 1) ELSE {}) :
       LET r == ExchangeResult(resp)
       IN /\ issued' = IF resp.error THEN issued ELSE issued + 1
          /\ validRT' = IF resp.refresh_token # NoToken
                          THEN validRT \cup {resp.refresh_token} ELSE validRT
          /\ files' = PersistExchange(r, files,
                                      TokenData(resp.access_token, resp.refresh_token,
                                                ExpiresAt(now, resp.expires_in),
                                                issued + 1),
                                      au.global)
          /\ IF r = "ok"
               THEN /\ au' = [au EXCEPT !.pc = "done", !.response = resp,
                                        !.responded = TRUE, !.savedAt = now]
                    /\ UNCHANGED srv
               ELSE /\ au' = [au EXCEPT !.pc = "failed", !.response = resp,
                                        !.responded = TRUE,
                                        !.failure = Failure(r, Null, Null)]
                    /\ srv' = [srv EXCEPT !.timerPending = FALSE]
  /\ UNCHANGED <<now, creds, gitignore, gv, usedRT, failedRT, rd, gx, cli>>

\* ----------------------------------------------------- getValidAccessToken
\* The expiry test with the boundary included.
isNearExpiryInclusive(expires_at, t) == expires_at <= t + bufferMs

\* Refresh if expired (with 5 minute buffer).
isNearExpiry(expires_at, t) == expires_at < t + bufferMs

\* A refresh that always saves to the project path.
isGlobalNever(tokenPath) == FALSE

\* A refresh that always saves to the global path.
isGlobalAlways(tokenPath) == TRUE

\* Save back to the original location.
isGlobal(tokenPath) == tokenPath = "global"

\* The refresh result with only the refresh token tested.
RefreshResultNoAccessCheck(resp) ==
  IF resp.error THEN "TokenRefreshFailed"
  ELSE IF resp.refresh_token = NoToken THEN "InvalidTokenResponse"
  ELSE "ok"

\* refreshAccessToken's handling of the refresh response, up to saveToken.
RefreshResult(resp) ==
  IF resp.error THEN "TokenRefreshFailed"
  ELSE IF resp.access_token = NoToken \/ resp.refresh_token = NoToken
    THEN "InvalidTokenResponse"
  ELSE "ok"

\* The record refreshAccessToken saves and returns.
RefreshedTokenData(resp, t, k) ==
  TokenData(resp.access_token, resp.refresh_token, ExpiresAt(t, resp.expires_in), k)

\* getValidAccessToken that keeps the record it read from disk.
StaleTokenData(tokenData, refreshed) == tokenData

\* tokenData = await refreshAccessToken(...): the refreshed record replaces
\* the one read from disk before `return tokenData.access_token`.
AssignRefreshed(tokenData, refreshed) == refreshed

\* getValidAccessToken that tests the expiry again after a refresh.
AfterRefreshRecheck(r, tokenData, t) ==
  IF r # "ok" THEN "failed"
  ELSE IF isNearExpiry(tokenData.expires_at, t) THEN "refreshing"
  ELSE "returned"

\* getValidAccessToken that catches a refresh failure and returns the token
\* it read from disk.
AfterRefreshSwallow(r, tokenData, t) == "returned"

\* Where getValidAccessToken goes after refreshAccessToken: a throw leaves
\* the call, a result is returned; the expiry test is an `if`, not a loop.
AfterRefresh(r, tokenData, t) ==
  IF r # "ok" THEN "failed" ELSE "returned"

\* getValidAccessToken from its first line to its return, its throw, or the
\* refresh fetch.
StartCall ==
  LET tokenPath == findTokenPath(files)
      credentials == loadCredentials(creds)
      call == [IdleCall EXCEPT !.startedAt = now, !.filesBefore = files,
                               !.credentials = credentials]
  IN IF ~credentials.found
       THEN [call EXCEPT !.pc = "failed", !.failure = "CredentialsMissing"]
     ELSE IF tokenPath = Null
       THEN [call EXCEPT !.pc = "failed", !.failure = "NotAuthenticated"]
     ELSE LET tokenData == files[tokenPath]
          IN IF tokenData.json # "ok"
               THEN [call EXCEPT !.pc = "failed", !.tokenPath = tokenPath,
                       !.failure = "SyntaxError"]
             ELSE IF isNearExpiry(tokenData.expires_at, now)
               THEN [call EXCEPT !.pc = "refreshing",
                       !.tokenPath = tokenPath, !.loaded = tokenData,
                       !.sentRT = tokenData.refresh_token,
                       !.refreshSent = 1]
               ELSE [call EXCEPT !.pc = "returned",
                       !.tokenPath = tokenPath, !.loaded = tokenData,
                       !.result = tokenData.access_token]

\* getValidAccessToken up to its return, or up to the refresh fetch.
GetValidAccessToken ==
  /\ ~AuthBusy /\ ~CallBusy
  /\ au' = IdleAuth
  /\ srv' = IdleServer
  /\ gv' = StartCall
  /\ rd' = IdleRead
  /\ gx' = IdleCall
  /\ UNCHANGED <<now, creds, files, gitignore, issued, validRT, usedRT, failedRT, cli>>

\* refreshAccessToken from the response to its end, and getValidAccessToken
\* to its end: the token files and the call afterwards.
HandleRefresh(call, resp, fs, t) ==
  LET r == RefreshResult(resp)
      refreshed == RefreshedTokenData(resp, t, resp.refresh_token)
      pc == AfterRefresh(r, refreshed, t)
      tokenData == IF r = "ok" THEN AssignRefreshed(call.loaded, refreshed)
                   ELSE call.loaded
  IN [files |-> IF r = "ok"
                  THEN saveToken(fs, refreshed, isGlobal(call.tokenPath))
                  ELSE fs,
      call |-> [call EXCEPT
                  !.pc = pc, !.response = resp,
                  !.failure = IF pc = "failed" THEN r ELSE @,
                  !.result = IF pc = "returned"
                               THEN tokenData.access_token ELSE @,
                  !.sentRT = IF pc = "refreshing"
                               THEN tokenData.refresh_token ELSE @,
                  !.refreshSent = IF pc = "refreshing" THEN @ + 1 ELSE @]]

\* The token endpoint answers the refresh_token request; refreshAccessToken
\* and getValidAccessToken run to their end.  The provider grants only a
\* refresh token it still accepts, and rotates it when it grants.
RefreshResponseFrom(granted) ==
  /\ gv.pc = "refreshing"
  /\ \E resp \in {ErrorResponse} \cup
                 (IF gv.sentRT \in validRT /\ issued < MaxIssued
                    THEN granted ELSE {}) :
       LET h == HandleRefresh(gv, resp, files, now)
       IN /\ issued' = IF resp.error THEN issued ELSE issued + 1
          /\ validRT' = IF resp.error THEN validRT
                        ELSE (validRT \ {gv.sentRT})
                             \cup (IF resp.refresh_token # NoToken
                                     THEN {resp.refresh_token} ELSE {})
          /\ files' = h.files
          /\ gv' = h.call
          /\ usedRT' = IF RefreshResult(resp) = "ok"
                         THEN usedRT \cup {gv.sentRT} ELSE usedRT
          /\ failedRT' = IF RefreshResult(resp) = "ok"
                           THEN failedRT ELSE failedRT \cup {gv.sentRT}
  /\ UNCHANGED <<now, creds, gitignore, au, srv, rd, gx>>

\* The same for a getValidAccessToken call made on its own.
RefreshResponse ==
  /\ RefreshResponseFrom(GrantResponses(issued + 1))
  /\ UNCHANGED cli

\* ------------------------------------------------- concurrent invocations
\* Two CLI invocations are two processes: each step of one (the answer to its
\* fetch, the open and the write of its fs.writeFile) may fall between the
\* steps of the other.

\* The other call's refresh request carried the same refresh token and has
\* been granted.
GrantedSibling(call, other) ==
  /\ other.sentRT = call.sentRT
  /\ other.pc \in {"answered", "writing", "returned", "failed"}
  /\ other.refreshSent = 1
  /\ ~other.response.error

\* The token endpoint answers the refresh request of `call`.  It grants a
\* refresh token it accepts and rotates it; while a second request with the
\* same token is in flight it still accepts the token for that request (it
\* has checked both before rotating for either), and the later grant then
\* supersedes the earlier one.
RefreshAnswered(call, callNext, other) ==
  /\ call.pc = "refreshing"
  /\ \E resp \in {ErrorResponse} \cup
                 (IF call.sentRT \in validRT /\ issued < MaxIssued
                    THEN GrantResponses(issued + 1) ELSE {}) :
       LET inFlight == IF other.pc = "refreshing" /\ other.sentRT = call.sentRT
                         THEN {call.sentRT} ELSE {}
           superseded == IF GrantedSibling(call, other)
                           THEN {other.response.refresh_token} ELSE {}
       IN /\ callNext = [call EXCEPT !.pc = "answered", !.response = resp]
          /\ issued' = IF resp.error THEN issued ELSE issued + 1
          /\ validRT' =
               IF resp.error
                 THEN IF GrantedSibling(call, other)
                        THEN validRT \ {call.sentRT} ELSE validRT
                 ELSE ((validRT \ ({call.sentRT} \cup superseded)) \cup inFlight)
                      \cup (IF resp.refresh_token # NoToken
                              THEN {resp.refresh_token} ELSE {})
  /\ UNCHANGED <<now, creds, files, gitignore, au, srv, usedRT, failedRT, rd, cli>>

\* refreshAccessToken from the response to the open of fs.writeFile.
BeginSave(call, callNext) ==
  /\ call.pc = "answered"
  /\ LET r == RefreshResult(call.response)
         refreshed == RefreshedTokenData(call.response, now,
                                         call.response.refresh_token)
     IN IF r = "ok"
          THEN /\ files' = openTruncate(files, isGlobal(call.tokenPath))
               /\ callNext = [call EXCEPT !.pc = "writing", !.pending = refreshed]
               /\ usedRT' = usedRT \cup {call.sentRT}
               /\ UNCHANGED failedRT
          ELSE /\ callNext = [call EXCEPT !.pc = AfterRefresh(r, refreshed, now),
                                          !.failure = r]
               /\ failedRT' = failedRT \cup {call.sentRT}
               /\ UNCHANGED <<files, usedRT>>
  /\ UNCHANGED <<now, creds, gitignore, issued, validRT, au, srv, rd, cli>>

\* The write of fs.writeFile, and refreshAccessToken and getValidAccessToken
\* to their end.
FinishSave(call, callNext, other) ==
  /\ call.pc = "writing"
  /\ \E fits \in BOOLEAN :
       files' = writeContent(files, call.pending, isGlobal(call.tokenPath), fits)
  /\ callNext = [call EXCEPT
                   !.pc = AfterRefresh("ok", call.pending, now),
                   !.result = AssignRefreshed(call.loaded, call.pending).access_token,
                   !.saveOrder = other.saveOrder + 1]
  /\ UNCHANGED <<now, creds, gitignore, issued, validRT, au, srv, usedRT,
                 failedRT, rd, cli>>

\* A second invocation calls getValidAccessToken while the first is between
\* its read of the token file and the end of its write.
ConcurrentGetValidAccessToken ==
  /\ InFlight(gv)
  /\ gx.pc = "idle"
  /\ gx' = StartCall
  /\ UNCHANGED <<now, creds, files, gitignore, issued, validRT, au, srv, gv,
                 usedRT, failedRT, rd, cli>>

FirstAnswered == RefreshAnswered(gv, gv', gx) /\ UNCHANGED gx
SecondAnswered == RefreshAnswered(gx, gx', gv) /\ UNCHANGED gv
FirstBeginSave == BeginSave(gv, gv') /\ UNCHANGED gx
SecondBeginSave == BeginSave(gx, gx') /\ UNCHANGED gv
FirstFinishSave == FinishSave(gv, gv', gx) /\ UNCHANGED gx
SecondFinishSave == FinishSave(gx, gx', gv) /\ UNCHANGED gv

\* ------------------------------------------------- loadToken and checkAuth
\* loadToken without the `if (!tokenPath)` throw: it reads the project path.
loadTokenUnchecked(fs) ==
  [failure |-> Null,
   tokenPath |-> IF findTokenPath(fs) = Null THEN "project" ELSE findTokenPath(fs),
   tokenData |-> fs[IF findTokenPath(fs) = Null THEN "project" ELSE findTokenPath(fs)]]

\* loadToken: the record at the path findTokenPath gives, or a throw.
loadToken(fs) ==
  LET tokenPath == findTokenPath(fs)
  IN IF tokenPath = Null
       THEN [failure |-> "NotAuthenticated", tokenPath |-> Null,
             tokenData |-> NoFile]
     ELSE IF fs[tokenPath].json # "ok"
       THEN [failure |-> "SyntaxError", tokenPath |-> tokenPath,
             tokenData |-> NoFile]
       ELSE [failure |-> Null, tokenPath |-> tokenPath,
             tokenData |-> fs[tokenPath]]

\* checkAuth with getValidAccessToken's five-minute buffer in its expiry test.
checkAuthWithBuffer(fs, t) ==
  LET l == loadToken(fs)
      isExpired == isNearExpiry(l.tokenData.expires_at, t)
  IN IF l.failure = Null
       THEN [authenticated |-> ~isExpired, expiresAt |-> l.tokenData.expires_at,
             error |-> Null]
       ELSE [authenticated |-> FALSE, expiresAt |-> 0, error |-> l.failure]

\* checkAuth: { authenticated: !isExpired, expiresAt } or, when loadToken
\* throws, { authenticated: false, error }.
checkAuth(fs, t) ==
  LET l == loadToken(fs)
      isExpired == l.tokenData.expires_at < t
  IN IF l.failure = Null
       THEN [authenticated |-> ~isExpired, expiresAt |-> l.tokenData.expires_at,
             error |-> Null]
       ELSE [authenticated |-> FALSE, expiresAt |-> 0, error |-> l.failure]

\* What a checkAuth call made now finds and reports.
CheckRead ==
  LET l == loadToken(files)
      status == checkAuth(files, now)
  IN [IdleRead EXCEPT !.op = "checkAuth", !.tokenPath = l.tokenPath,
        !.tokenData = l.tokenData, !.failure = status.error,
        !.authenticated = status.authenticated,
        !.expiresAt = status.expiresAt,
        !.startedAt = now, !.filesBefore = files]

\* A call of loadToken.
LoadToken ==
  /\ ~AuthBusy /\ ~CallBusy
  /\ LET l == loadToken(files)
     IN rd' = [IdleRead EXCEPT !.op = "loadToken", !.tokenPath = l.tokenPath,
                 !.tokenData = l.tokenData, !.failure = l.failure,
                 !.startedAt = now, !.filesBefore = files]
  /\ au' = IdleAuth
  /\ srv' = IdleServer
  /\ gv' = IdleCall
  /\ gx' = IdleCall
  /\ UNCHANGED <<now, creds, files, gitignore, issued, validRT, usedRT, failedRT, cli>>

\* The `check` command: checkAuth and the printing of its result.
CheckAuth ==
  /\ ~AuthBusy /\ ~CallBusy
  /\ rd' = CheckRead
  /\ au' = IdleAuth
  /\ srv' = IdleServer
  /\ gv' = IdleCall
  /\ gx' = IdleCall
  /\ UNCHANGED <<now, creds, files, gitignore, issued, validRT, usedRT, failedRT, cli>>

\* ------------------------------------------------------------------ the CLI
\* main()'s switch: the commands that call the API, by the positional
\* arguments they require.
NoArgCommands == {"me", "tweets", "timeline", "lists"}
OneArgCommands ==
  {"user", "user-id", "users", "post", "delete", "tweet", "like", "unlike",
   "retweet", "unretweet", "retweeters", "search", "list", "list-members",
   "list-create", "list-delete"}
TwoArgCommands == {"list-add", "list-remove"}
ApiCommands == NoArgCommands \cup OneArgCommands \cup TwoArgCommands
HelpCommands == {"help", "--help", "-h"}
SwitchCommands == ApiCommands \cup {"auth", "check", "setup"}

\* A word that is no case of the switch.
UnknownCommand == "bogus"

\* What process.argv may hold after the script name: no command (Null), or a
\* command followed by up to two arguments, each possibly the empty string.
CommandVals == {Null, UnknownCommand, "check"} \cup HelpCommands \cup ApiCommands
ArgVals == {<<>>, <<"">>, <<"x">>, <<"x", "">>, <<"x", "y">>}

\* getUsersByIds' limit, and the numbers of comma-separated ids tried.
maxUserIds == 100
IdCounts == {1, maxUserIds, maxUserIds + 1}

RequiredArgs(command) ==
  IF command \in TwoArgCommands THEN 2
  ELSE IF command \in OneArgCommands THEN 1
  ELSE 0

\* The argument test with only the first argument looked at.
MissingFirstOnly(args, k) == k >= 1 /\ (Len(args) < 1 \/ ~Truthy(args[1]))

\* `if (!args[1])` / `if (!listId || !userId)`: one of the first k arguments
\* is absent or empty.
Missing(args, k) == \E i \in 1..k : Len(args) < i \/ ~Truthy(args[i])

\* No command calls getMe first.
CallsGetMeNever(command) == FALSE

\* The commands whose function awaits getMe() before its own request.
CallsGetMe(command) ==
  command \in {"tweets", "lists", "like", "unlike", "retweet", "unretweet"}

GetMeEndpoint == "/users/me"

\* The endpoint of the next twitterRequest of a run (named by its command).
Endpoint(c) ==
  IF c.command = "me" \/ (CallsGetMe(c.command) /\ c.requests = 0)
    THEN GetMeEndpoint
    ELSE c.command

\* The requests whose caller throws when the response has no `data`.
RequiresData(endpoint) ==
  endpoint \in {GetMeEndpoint, "user", "user-id", "post", "tweet", "list",
                "list-create"}

\* getUsersByIds without its limit.
getUsersByIdsUnlimited(n) == IF n = 0 THEN "empty" ELSE "request"

\* getUsersByIds up to its request: [] for no ids, a throw for more than 100.
getUsersByIds(n) ==
  IF n = 0 THEN "empty"
  ELSE IF n > maxUserIds THEN "tooMany"
  ELSE "request"

\* What is written to stdout: a JSON envelope, or the usage text.
Envelope(success, payload) == [json |-> TRUE, success |-> success, payload |-> payload]
UsageText == [json |-> FALSE, success |-> FALSE, payload |-> "usage"]

\* output(data), after which main returns and the process ends with status 0.
output(c, data) ==
  [c EXCEPT !.pc = "exited", !.stdout = Append(@, Envelope(TRUE, data)), !.exit = 0]

\* fail(message): the error envelope and process.exit(1).
fail(c, message) ==
  [c EXCEPT !.pc = "exited", !.stdout = Append(@, Envelope(FALSE, message)),
            !.exit = 1, !.error = message]

\* printUsage() and process.exit(status).
printUsage(c, status) ==
  [c EXCEPT !.pc = "exited", !.stdout = Append(@, UsageText), !.exit = status]

\* ------------------------------------------------------------- rate limits
\* The x-rate-limit-* headers of an API response: absent, or two numbers.
NoHeaders == [present |-> FALSE, limit |-> 0, remaining |-> 0]
Headers(limit, remaining) == [present |-> TRUE, limit |-> limit, remaining |-> remaining]

\* remaining / limit >= num / den.
pctAtLeast(remaining, limit, num, den) ==
  IF limit = 0 THEN remaining > 0 ELSE remaining * den >= limit * num

\* pct > num / den for pct = remaining / limit in JS numbers: Infinity when
\* only limit is 0, NaN (greater than nothing) when both are.  For the small
\* integers here the double quotient compares with 0.5 and 0.2 as the exact
\* fraction does.
pctAbove(remaining, limit, num, den) ==
  IF limit = 0 THEN remaining > 0 ELSE remaining * den > limit * num

\* logRateLimit: nothing without the headers, else the status `X/Y` + suffix.
logRateLimit(info) ==
  IF ~info.present THEN NotLogged
  ELSE [logged |-> TRUE, remaining |-> info.remaining, limit |-> info.limit,
        suffix |-> IF pctAbove(info.remaining, info.limit, 1, 2) THEN ""
                   ELSE IF pctAbove(info.remaining, info.limit, 1, 5) THEN " (low)"
                   ELSE " (CRITICAL)"]

\* --------------------------------------------------------- twitterRequest
\* twitterRequest from the outcome of getValidAccessToken to its fetch: a
\* throw goes up to main's catch, a pending refresh is awaited.
Fetch(c, call) ==
  IF call.pc = "failed" THEN fail(c, call.failure)
  ELSE IF call.pc = "refreshing" THEN [c EXCEPT !.pc = "refreshing", !.refreshes = @ + 1]
  ELSE [c EXCEPT !.pc = "fetching", !.requests = @ + 1,
                 !.endpoints = Append(@, Endpoint(c))]

\* twitterRequest from its first line: one getValidAccessToken call.
twitterRequest(c, call) ==
  Fetch([c EXCEPT !.tokenCalls = @ + 1, !.credentialsLoaded = TRUE], call)

\* main() from its first line to its exit or to its first wait for the
\* network: the run, the getValidAccessToken call and the checkAuth read.
MainStart(command, args, ids) ==
  LET c == [IdleCli EXCEPT !.command = command, !.args = args, !.ids = ids,
                           !.filesBefore = files]
      quiet(run) == [cli |-> run, gv |-> IdleCall, rd |-> IdleRead]
  IN IF command = Null \/ command \in HelpCommands THEN quiet(printUsage(c, 0))
     ELSE IF command = "check"
       THEN [cli |-> output(c, "status"), gv |-> IdleCall, rd |-> CheckRead]
     ELSE IF command \notin SwitchCommands THEN quiet(printUsage(c, 1))
     ELSE IF Missing(args, RequiredArgs(command)) THEN quiet(fail(c, "Usage"))
     ELSE IF command = "users" /\ getUsersByIds(ids) = "tooMany"
       THEN quiet(fail(c, "Maximum 100 user IDs per request"))
     ELSE IF command = "users" /\ getUsersByIds(ids) = "empty"
       THEN quiet(output(c, "empty"))
     ELSE [cli |-> twitterRequest(c, StartCall), gv |-> StartCall, rd |-> IdleRead]

\* One run of the CLI with a command other than auth and setup (performAuth
\* and performSetup).  idsArg.split(",") has ids fields, at least one; it
\* matters to `users` only.
RunCommand(command, args, ids) ==
  /\ cli.pc = "idle" /\ au.pc = "idle"
  /\ command \notin {"auth", "setup"}
  /\ IF command = "users" /\ ~Missing(args, 1) THEN ids >= 1 ELSE ids = 0
  /\ cli' = MainStart(command, args, ids).cli
  /\ gv' = MainStart(command, args, ids).gv
  /\ rd' = MainStart(command, args, ids).rd
  /\ UNCHANGED <<now, creds, files, gitignore, issued, validRT, au, srv, usedRT,
                 failedRT, gx>>

\* The grants the token endpoint gives a run's refresh: complete, and expiring
\* within the 5-minute buffer or well after it.
CliGrantResponses(k) == { TokenResponse(k, k, e, FALSE) : e \in {60, NoExpiresIn} }

\* The token endpoint answers the refresh of a run's twitterRequest, which
\* goes on to its fetch or throws.
CliRefreshResponse ==
  /\ cli.pc = "refreshing"
  /\ RefreshResponseFrom(CliGrantResponses(issued + 1))
  /\ cli' = Fetch(cli, gv')

\* How the API may answer: a body with data, a body without, 204 No Content,
\* or an error status.
ApiResponses == {"data", "nodata", "nocontent", "error"}

\* The API answers a run's fetch: twitterRequest logs the rate limit and
\* returns or throws; the command's function then throws, returns to main
\* (which prints the result), or, after getMe, makes its own twitterRequest.
ApiResponseFrom(headers) ==
  /\ cli.pc = "fetching"
  /\ \E kind \in ApiResponses, h \in headers :
       LET endpoint == cli.endpoints[Len(cli.endpoints)]
           logged == [cli EXCEPT !.rateLimit = logRateLimit(h)]
       IN IF kind = "error"
            THEN /\ cli' = fail(logged, "API request failed")
                 /\ UNCHANGED gv
          ELSE IF kind # "data" /\ RequiresData(endpoint)
            THEN /\ cli' = fail(logged, "not found")
                 /\ UNCHANGED gv
          ELSE IF CallsGetMe(cli.command) /\ endpoint = GetMeEndpoint
            THEN /\ cli' = twitterRequest(logged, StartCall)
                 /\ gv' = StartCall
          ELSE /\ cli' = output(logged, "data")
               /\ UNCHANGED gv
  /\ UNCHANGED <<now, creds, files, gitignore, issued, validRT, au, srv, usedRT,
                 failedRT, rd, gx>>

CliHeaders == {NoHeaders, Headers(2, 1)}

ApiResponse == ApiResponseFrom(CliHeaders)

\* ------------------------------------------------------------ specification
\* The authorization flow with every request the callback server can get.
AuthNext ==
  \/ Tick
  \/ \E global \in BOOLEAN : PerformAuth(global)
  \/ \E req \in Requests : CallbackRequest(req)
  \/ TimeoutFire
  \/ ExchangeResponse

AuthSpec == Init /\ [][AuthNext]_vars

\* The redirects the provider sends the browser to after the consent page.
RedirectRequests ==
  { [code |-> GenuineCode, state |-> au.state, error |-> Null,
     error_description |-> Null],
    [code |-> Null, state |-> au.state, error |-> "access_denied",
     error_description |-> Null] }

\* The token lifecycle: authorizations followed by getValidAccessToken calls.
TokenNext ==
  \/ Tick
  \/ \E global \in BOOLEAN : PerformAuth(global)
  \/ \E req \in RedirectRequests : CallbackRequest(req)
  \/ TimeoutFire
  \/ ExchangeResponse
  \/ GetValidAccessToken
  \/ RefreshResponse

TokenSpec == Init /\ [][TokenNext]_vars

\* The authorization flow with the provider's redirects, and with more than
\* one value generateCodeVerifier may return.
PkceVerifierVals == VerifierVals \cup {"v2"}

PkceNext ==
  \/ Tick
  \/ \E global \in BOOLEAN : PerformAuthFrom(global, PkceVerifierVals)
  \/ \E req \in RedirectRequests : CallbackRequest(req)
  \/ TimeoutFire
  \/ ExchangeResponse

PkceSpec == Init /\ [][PkceNext]_vars

\* Tokens of a response the provider gave before this behaviour.
PriorToken == MaxIssued + 1

\* The token store as earlier invocations may have left it: at each path a
\* record from a token response the provider has issued before, or no file;
\* and the credential sources as the user may have them now.
StoreCredConfigs ==
  { [file |-> CredentialsFile("idF", "secretF"), op |-> OnePassword("idO", "secretO")],
    [file |-> CredentialsFile("idF", ""), op |-> OnePassword("idO", "secretO")],
    [file |-> CredentialsFile("idF", Null), op |-> No1Password],
    [file |-> NoCredentialsFile, op |-> OnePassword("idO", Null)],
    [file |-> NoCredentialsFile, op |-> No1Password] }

StoreRecords(k) ==
  {NoFile} \cup { TokenData(k, k, ExpiresAt(0, e), k) : e \in {60, 300} }

StoreInit ==
  /\ now = 0
  /\ creds \in StoreCredConfigs
  /\ \E p \in StoreRecords(1) :
       \E g \in StoreRecords(IF p.exists THEN 2 ELSE 1) :
         /\ files = [s \in Scopes |-> IF s = "project" THEN p ELSE g]
         /\ validRT = {f.refresh_token : f \in {x \in {p, g} : x.exists}}
         /\ issued = Cardinality(validRT)
  /\ gitignore \in GitignoreInits
  /\ au = IdleAuth
  /\ srv = IdleServer
  /\ gv = IdleCall
  /\ usedRT = {}
  /\ failedRT = {}
  /\ rd = IdleRead
  /\ gx = IdleCall
  /\ cli = IdleCli

StoreNext ==
  \/ TokenNext
  \/ LoadToken
  \/ CheckAuth

StoreSpec == StoreInit /\ [][StoreNext]_vars

\* Concurrent getValidAccessToken calls on a record an earlier authorization
\* has left inside the expiry window.

RaceInit ==
  /\ now = 0
  /\ creds = [file |-> CredentialsFile("idF", "secretF"), op |-> No1Password]
  /\ \E path \in Scopes, e \in {60, 300} :
       files = [s \in Scopes |->
                  IF s = path
                    THEN TokenData(PriorToken, PriorToken, ExpiresAt(0, e), PriorToken)
                    ELSE NoFile]
  /\ validRT = {PriorToken}
  /\ issued = 0
  /\ gitignore \in GitignoreInits
  /\ au = IdleAuth
  /\ srv = IdleServer
  /\ gv = IdleCall
  /\ usedRT = {}
  /\ failedRT = {}
  /\ rd = IdleRead
  /\ gx = IdleCall
  /\ cli = IdleCli

RaceNext ==
  \/ Tick
  \/ GetValidAccessToken
  \/ ConcurrentGetValidAccessToken
  \/ FirstAnswered
  \/ SecondAnswered
  \/ FirstBeginSave
  \/ SecondBeginSave
  \/ FirstFinishSave
  \/ SecondFinishSave

RaceSpec == RaceInit /\ [][RaceNext]_vars

\* Refreshes of records earlier authorizations have left at either path (or
\* at both), by a user whose credentials load.
RefreshInit ==
  /\ now = 0
  /\ creds = [file |-> CredentialsFile("idF", "secretF"), op |-> No1Password]
  /\ \E p \in StoreRecords(PriorToken) :
       \E g \in StoreRecords(PriorToken + 1) :
         /\ files = [s \in Scopes |-> IF s = "project" THEN p ELSE g]
         /\ validRT = {f.refresh_token : f \in {x \in {p, g} : x.exists}}
  /\ issued = 0
  /\ gitignore \in GitignoreInits
  /\ au = IdleAuth
  /\ srv = IdleServer
  /\ gv = IdleCall
  /\ usedRT = {}
  /\ failedRT = {}
  /\ rd = IdleRead
  /\ gx = IdleCall
  /\ cli = IdleCli

RefreshNext ==
  \/ Tick
  \/ GetValidAccessToken
  \/ RefreshResponse

RefreshSpec == RefreshInit /\ [][RefreshNext]_vars

\* The `check` command on the token files earlier invocations may have left:
\* at each path no file, a record, or a file that is not JSON (the bytes of
\* two overlapping saves); with or without loadable credentials.
CheckInit ==
  /\ now = 0
  /\ creds \in CredConfigs
  /\ \E p \in StoreRecords(PriorToken) \cup {TornFile} :
       \E g \in StoreRecords(PriorToken + 1) \cup {TornFile} :
         /\ files = [s \in Scopes |-> IF s = "project" THEN p ELSE g]
         /\ validRT = {f.refresh_token : f \in {x \in {p, g} : x.json = "ok" /\ x.exists}}
  /\ issued = 0
  /\ gitignore \in GitignoreInits
  /\ au = IdleAuth
  /\ srv = IdleServer
  /\ gv = IdleCall
  /\ usedRT = {}
  /\ failedRT = {}
  /\ rd = IdleRead
  /\ gx = IdleCall
  /\ cli = IdleCli

CheckNext ==
  \/ Tick
  \/ CheckAuth
  \/ GetValidAccessToken
  \/ RefreshResponse

CheckSpec == CheckInit /\ [][CheckNext]_vars

\* Authorizations in projects whose .gitignore is absent, empty, without the
\* pattern (ending in a newline or not), or already mentions it.
GitInits ==
  { [exists |-> FALSE, content |-> <<>>],
    [exists |-> TRUE, content |-> <<>>],
    [exists |-> TRUE, content |-> <<"node_modules">>],
    [exists |-> TRUE, content |-> <<"node_modules", NL>>],
    [exists |-> TRUE, content |-> <<"node_modules", NL, PAT, NL>>],
    [exists |-> TRUE, content |-> <<NEGPAT, NL>>] }

GitInit ==
  /\ now = 0
  /\ creds \in CredConfigs
  /\ files = [s \in Scopes |-> NoFile]
  /\ gitignore \in GitInits
  /\ issued = 0
  /\ validRT = {}
  /\ au = IdleAuth
  /\ srv = IdleServer
  /\ gv = IdleCall
  /\ usedRT = {}
  /\ failedRT = {}
  /\ rd = IdleRead
  /\ gx = IdleCall
  /\ cli = IdleCli

GitNext ==
  \/ \E global \in BOOLEAN : PerformAuth(global)
  \/ \E req \in RedirectRequests : CallbackRequest(req)
  \/ ExchangeResponse

GitSpec == GitInit /\ [][GitNext]_vars

\* One invocation of the CLI, in a project where an earlier authorization has
\* left no token, one inside the expiry window, or one that is still good.
CliInit ==
  /\ now = 0
  /\ creds \in CredConfigs
  /\ \E p \in StoreRecords(PriorToken) :
       /\ files = [s \in Scopes |-> IF s = "project" THEN p ELSE NoFile]
       /\ validRT = IF p.exists THEN {PriorToken} ELSE {}
  /\ issued = 0
  /\ gitignore \in GitignoreInits
  /\ au = IdleAuth
  /\ srv = IdleServer
  /\ gv = IdleCall
  /\ usedRT = {}
  /\ failedRT = {}
  /\ rd = IdleRead
  /\ gx = IdleCall
  /\ cli = IdleCli

CliNext ==
  \/ Tick
  \/ \E command \in CommandVals, args \in ArgVals, ids \in IdCounts \cup {0} :
       RunCommand(command, args, ids)
  \/ CliRefreshResponse
  \/ ApiResponse

CliSpec == CliInit /\ [][CliNext]_vars

\* Single-request commands run with a good token, the API answering with any
\* rate-limit headers (limit 0 included: parseRateLimitHeaders tests the
\* header strings, and "0" is a non-empty string).
RateHeaders ==
  {NoHeaders} \cup { Headers(limit, remaining) : limit \in 0..MaxLimit,
                                                 remaining \in 0..MaxLimit }

RateInit ==
  /\ now = 0
  /\ creds = [file |-> CredentialsFile("idF", "secretF"), op |-> No1Password]
  /\ files = [s \in Scopes |->
                IF s = "project"
                  THEN TokenData(PriorToken, PriorToken, ExpiresAt(0, 300), PriorToken)
                  ELSE NoFile]
  /\ validRT = {PriorToken}
  /\ issued = 0
  /\ gitignore \in GitignoreInits
  /\ au = IdleAuth
  /\ srv = IdleServer
  /\ gv = IdleCall
  /\ usedRT = {}
  /\ failedRT = {}
  /\ rd = IdleRead
  /\ gx = IdleCall
  /\ cli = IdleCli

RateNext ==
  \/ \E command \in {"me", "timeline"} : RunCommand(command, <<>>, 0)
  \/ ApiResponseFrom(RateHeaders)

RateSpec == RateInit /\ [][RateNext]_vars

\* The same, with the scheduling Node guarantees: time passes, and a timer
\* that is due is run.
FairAuthSpec == AuthSpec /\ WF_vars(Tick) /\ WF_vars(TimeoutFire)

\* ================================================================== claims
\* A request has been handled while the callback promise was pending;
\* srv.lastRequest is the last such request and srv.lastStatus its answer.
Received == srv.lastStatus # 0
StateMatches == srv.lastRequest.state = au.state
RequestedScope == IF au.global THEN "global" ELSE "project"
OtherScope == IF au.global THEN "project" ELSE "global"

\* C1: getValidAccessToken sends a refresh request exactly when the loaded
\* record has expires_at < now + 300000; otherwise it returns the stored
\* access_token, sends nothing and writes no token file; inside the window it
\* sends exactly one request.
C1_RefreshIffNearExpiry ==
  gv.tokenPath # Null
    => /\ gv.refreshSent \in {0, 1}
       /\ (gv.refreshSent = 1) <=> (gv.loaded.expires_at < gv.startedAt + 300000)
       /\ gv.refreshSent = 0
            => /\ gv.pc = "returned"
               /\ gv.result = gv.loaded.access_token
               /\ files = gv.filesBefore

C1_Witness ==
  /\ gv.pc = "returned"
  /\ gv.refreshSent = 0
  /\ gv.loaded.expires_at = gv.startedAt + 300000
  /\ gv.startedAt > 0

\* C2: a successful refresh stores the response's access_token and
\* refresh_token in the record it loaded from, and a refresh token consumed by
\* a successful refresh is never sent in a later refresh request.
C2_RotationPersisted ==
  /\ (gv.pc = "returned" /\ gv.refreshSent = 1)
       => /\ files[gv.tokenPath].exists
          /\ files[gv.tokenPath].access_token = gv.response.access_token
          /\ files[gv.tokenPath].refresh_token = gv.response.refresh_token
  /\ gv.pc = "refreshing" => gv.sentRT \notin usedRT

C2_Witness ==
  /\ gv.pc = "refreshing"
  /\ gv.tokenPath = "global"
  /\ usedRT # {}

\* C3 (as stated): every request received by the listener whose state differs
\* from the generated state (or is missing) makes performAuth fail with the
\* state-mismatch error, whatever else it carries (a code, an error).
C3_AnyMismatchIsCsrf ==
  (Received /\ ~StateMatches)
    => (au.pc = "failed" /\ au.failure.name = "CsrfMismatch")

\* C3 (amended): every request received while the callback wait is unsettled
\* that carries no error parameter and whose state differs from the generated
\* state (or is missing) is answered 400 and makes performAuth fail with the
\* state-mismatch error, whether or not it carries a code.
C3_MismatchWithoutErrorIsCsrf ==
  (Received /\ ~Truthy(srv.lastRequest.error) /\ ~StateMatches)
    => /\ au.pc = "failed"
       /\ au.failure = Failure("CsrfMismatch", Null, Null)
       /\ srv.lastStatus = 400
       /\ ~srv.listening

C3_Witness ==
  /\ Received
  /\ srv.lastRequest.state = Null
  /\ srv.lastRequest.code = GenuineCode
  /\ srv.lastRequest.error = Null
  /\ au.failure.name = "CsrfMismatch"

\* C4: a request with an error parameter received by the listening server
\* makes performAuth fail with an error carrying that error and its
\* description; no token exchange is sent and no token file is written.
C4_ErrorDenies ==
  (Received /\ Truthy(srv.lastRequest.error))
    => /\ au.pc = "failed"
       /\ au.failure.name = "OAuthDenied"
       /\ au.failure.error = srv.lastRequest.error
       /\ au.failure.detail = (IF srv.lastRequest.error_description = Null
                                 THEN "" ELSE srv.lastRequest.error_description)
       /\ ~au.exchangeSent
       /\ ~au.responded
       /\ files = au.filesBefore

C4_Witness ==
  /\ Received
  /\ srv.lastRequest.error = "access_denied"
  /\ srv.lastRequest.code = GenuineCode
  /\ StateMatches
  /\ au.failure.name = "OAuthDenied"
  /\ au.filesBefore["project"].exists

\* C5: a token exchange is sent only after a request with the generated state
\* and a code was received; the code sent is that request's code; a code that
\* arrives with a mismatched state is never sent.
C5_ExchangeOnlyAfterMatchingState ==
  /\ au.exchangeSent
       => /\ srv.settledBy = "request"
          /\ StateMatches
          /\ Truthy(srv.lastRequest.code)
          /\ au.exchangeCode = srv.lastRequest.code
  /\ (Received /\ ~StateMatches) => ~au.exchangeSent

C5_Witness ==
  /\ au.exchangeSent
  /\ au.exchangeCode = "c2"
  /\ srv.lateRequest

\* C6 (as stated): a request with neither an error nor a code with matching
\* state (a favicon request without query parameters, say) is answered 404 and
\* leaves the listener running and the result unsettled.
C6_NoiseIsIgnored ==
  (/\ Received
   /\ ~Truthy(srv.lastRequest.error)
   /\ ~(Truthy(srv.lastRequest.code) /\ StateMatches))
    => /\ srv.lastStatus = 404
       /\ srv.settledBy # "request"

\* C7: the callback promise settles once: after it has settled, no request and
\* no firing of the timer changes its outcome within the run, and whenever it
\* is settled the server has been closed.
NewInvocation ==
  (\E global \in BOOLEAN : PerformAuth(global)) \/ GetValidAccessToken

C7_SettlesOnce ==
  [][/\ (srv.promise.status # "pending" /\ ~NewInvocation)
          => (srv'.promise = srv.promise /\ srv'.settledBy = srv.settledBy)
     /\ srv'.promise.status # "pending" => ~srv'.listening]_vars

C7_Witness ==
  /\ srv.promise.status = "resolved"
  /\ srv.lateRequest
  /\ srv.lateTimer

\* C8: a wait that no request settles ends in the timeout: the wait always
\* ends, and when the timer ends it (300000 ms after the wait began, not
\* before) performAuth has failed with the timeout error, the server is closed,
\* no exchange was sent and no token file was written.
TimedOut ==
  /\ au.pc = "failed"
  /\ au.failure = Failure("AuthTimeout", Null, Null)
  /\ now >= srv.deadline
  /\ ~srv.listening
  /\ ~au.exchangeSent
  /\ files = au.filesBefore

C8_TimeoutEndsWait ==
  /\ [](srv.settledBy = "timer" => TimedOut)
  /\ [](srv.settledBy = "request"
          => \/ Truthy(srv.lastRequest.error)
             \/ ~StateMatches
             \/ Truthy(srv.lastRequest.code))
  /\ (au.pc = "waiting") ~> (srv.settledBy # "none")

C8_Witness ==
  /\ srv.settledBy = "timer"
  /\ srv.lastStatus = 404
  /\ au.filesBefore["project"].exists

\* C9: an exchange response without error and without refresh_token makes
\* performAuth fail with the missing-refresh-token error and leaves both token
\* files as they were before the run.
C9_MissingRefreshTokenWritesNothing ==
  (au.responded /\ ~au.response.error /\ au.response.refresh_token = NoToken)
    => /\ au.pc = "failed"
       /\ au.failure.name = "MissingRefreshToken"
       /\ files = au.filesBefore

C9_Witness ==
  /\ au.responded
  /\ au.response.access_token # NoToken
  /\ au.response.refresh_token = NoToken
  /\ au.failure.name = "MissingRefreshToken"
  /\ au.filesBefore["project"].exists

\* C10 (as stated): a successful authorization with access_token A,
\* refresh_token R and expires_in E writes {A, R, now + E*1000} to the
\* requested scope and to no other token location.
C10_PersistsExpiresIn ==
  (/\ au.pc = "done"
   /\ au.response.access_token # NoToken
   /\ au.response.expires_in # NoExpiresIn)
    => /\ files[RequestedScope].exists
       /\ files[RequestedScope].access_token = au.response.access_token
       /\ files[RequestedScope].refresh_token = au.response.refresh_token
       /\ files[RequestedScope].expires_at = au.savedAt + au.response.expires_in * 1000
       /\ files[OtherScope] = au.filesBefore[OtherScope]

\* C10 (amended): the same with expires_at = now + E*1000 for a non-zero E,
\* and now + 7200000 when expires_in is 0 or missing.
C10_PersistsRecord ==
  (au.pc = "done" /\ au.response.access_token # NoToken)
    => /\ files[RequestedScope].exists
       /\ files[RequestedScope].access_token = au.response.access_token
       /\ files[RequestedScope].refresh_token = au.response.refresh_token
       /\ files[RequestedScope].expires_at =
            (IF au.response.expires_in \in {NoExpiresIn, 0}
               THEN au.savedAt + 7200000
               ELSE au.savedAt + au.response.expires_in * 1000)
       /\ files[OtherScope] = au.filesBefore[OtherScope]

C10_Witness ==
  /\ au.pc = "done"
  /\ au.global
  /\ au.response.expires_in = 300
  /\ au.response.access_token # NoToken
  /\ au.filesBefore["project"].exists
  /\ files["global"].expires_at = now + 300000

\* C11: when getValidAccessToken returns, the returned string is the
\* access_token of the record stored at the location it loaded from: the
\* loaded record's without a refresh, and after a refresh the response's (not
\* the one read from disk), the stored record holding the response's
\* refresh_token.
C11_ReturnsPersistedToken ==
  gv.pc = "returned"
    => /\ gv.result = files[gv.tokenPath].access_token
       /\ gv.refreshSent = 0 => gv.result = gv.loaded.access_token
       /\ gv.refreshSent = 1
            => /\ gv.result = gv.response.access_token
               /\ gv.result # gv.loaded.access_token
               /\ files[gv.tokenPath].refresh_token = gv.response.refresh_token

C11_Witness ==
  /\ gv.pc = "returned"
  /\ gv.refreshSent = 1
  /\ gv.loaded.access_token # NoToken
  /\ gv.result # NoToken

\* C12: a refresh response with an error field, or without access_token, or
\* without refresh_token makes getValidAccessToken fail with an error and
\* return nothing, and leaves both token files as they were.
C12_FailedRefreshLeavesRecord ==
  (/\ gv.refreshSent = 1
   /\ gv.pc \in {"returned", "failed"}
   /\ \/ gv.response.error
      \/ gv.response.access_token = NoToken
      \/ gv.response.refresh_token = NoToken)
    => /\ gv.pc = "failed"
       /\ gv.failure \in {"TokenRefreshFailed", "InvalidTokenResponse"}
       /\ gv.result = NoToken
       /\ files = gv.filesBefore

C12_Witness ==
  /\ gv.pc = "failed"
  /\ ~gv.response.error
  /\ gv.response.access_token = NoToken
  /\ gv.response.refresh_token # NoToken
  /\ files[gv.tokenPath].exists

\* C13: one getValidAccessToken call sends at most one refresh request: the
\* answer to it ends the call, with a failure or with a return, also when the
\* refreshed record is itself inside the expiry window.
C13_AtMostOneRefresh ==
  /\ [](gv.refreshSent \in {0, 1})
  /\ [][gv.pc = "refreshing"
          => \/ gv' = gv
             \/ gv'.pc \in {"returned", "failed"} /\ gv'.refreshSent = 1]_vars

C13_Witness ==
  /\ gv.pc = "returned"
  /\ gv.refreshSent = 1
  /\ files[gv.tokenPath].expires_at < now + 300000


\* C14 (as stated): once a refresh has failed for the stored record, no later
\* getValidAccessToken call returns an access token from that record; only a
\* record written by a later successful performAuth is returned from.
C14_FailedRefreshIsTerminal ==
  gv.pc = "returned" => gv.loaded.refresh_token \notin failedRT

\* C14 (amended): once a refresh has failed for the stored record, every call
\* that loads that record sends a refresh request with the same refresh token
\* again, and it returns an access token only when that request of its own is
\* granted: the token then returned is the new response's, never the stored one.
C14_FailedRefreshIsRetried ==
  (gv.tokenPath # Null /\ gv.loaded.refresh_token \in failedRT)
    => /\ gv.refreshSent = 1
       /\ gv.sentRT = gv.loaded.refresh_token
       /\ gv.pc = "returned"
            => /\ ~gv.response.error
               /\ gv.result = gv.response.access_token
               /\ gv.result # gv.loaded.access_token
               /\ files[gv.tokenPath].refresh_token = gv.response.refresh_token
               /\ files[gv.tokenPath].refresh_token \notin failedRT

C14_Witness ==
  /\ gv.pc = "returned"
  /\ gv.loaded.refresh_token \in failedRT
  /\ gv.result # NoToken


\* A lookup over the files fb gave tokenPath and the record tokenData: the
\* project path whenever the project file exists, the global path only when
\* the project file is absent and the global one exists, none only when both
\* are absent; the record read is the one at that path.
LookupFollowsPrecedence(fb, tokenPath, tokenData) ==
  /\ fb["project"].exists => tokenPath = "project"
  /\ tokenPath = "global" <=> (~fb["project"].exists /\ fb["global"].exists)
  /\ tokenPath = Null <=> (~fb["project"].exists /\ ~fb["global"].exists)
  /\ tokenPath # Null => tokenData = fb[tokenPath]

\* getValidAccessToken has got as far as the token lookup.
LookedUp == gv.pc # "idle" /\ gv.failure # "CredentialsMissing"

\* C15: token lookup gives the project path whenever the project file exists,
\* the global path only when it is absent and the global file exists, and none
\* only when both are absent; getValidAccessToken, loadToken and checkAuth all
\* read the record at that path.
C15_ProjectTakesPrecedence ==
  /\ LookedUp => LookupFollowsPrecedence(gv.filesBefore, gv.tokenPath, gv.loaded)
  /\ rd.op # "idle"
       => LookupFollowsPrecedence(rd.filesBefore, rd.tokenPath, rd.tokenData)
  /\ (rd.op = "checkAuth" /\ rd.tokenPath # Null)
       => rd.expiresAt = rd.filesBefore[rd.tokenPath].expires_at

C15_Witness ==
  /\ gv.tokenPath = "project"
  /\ gv.filesBefore["global"].exists
  /\ gv.filesBefore["global"].expires_at # gv.filesBefore["project"].expires_at
  /\ gv.loaded = gv.filesBefore["project"]

NoTokenFile(fb) == ~fb["project"].exists /\ ~fb["global"].exists

FileHasBoth ==
  /\ creds.file.exists
  /\ creds.file.client_id \notin {Null, ""}
  /\ creds.file.client_secret \notin {Null, ""}

SecretManagerHasBoth ==
  /\ creds.op.available
  /\ creds.op.client_id \notin {Null, ""}
  /\ creds.op.client_secret \notin {Null, ""}

\* The credentials c are the ones the priority order gives.
ByPriority(c) ==
  IF FileHasBoth
    THEN c = [found |-> TRUE, client_id |-> creds.file.client_id,
              client_secret |-> creds.file.client_secret]
  ELSE IF SecretManagerHasBoth
    THEN c = [found |-> TRUE, client_id |-> creds.op.client_id,
              client_secret |-> creds.op.client_secret]
  ELSE ~c.found

C18_PkceBinding ==
  /\ au.codeVerifier # Null
       => /\ au.authUrl.code_challenge = <<"S256", au.codeVerifier>>
          /\ au.authUrl.code_challenge_method = "S256"
          /\ au.authUrl.state = au.state
  /\ au.exchangeSent
       => /\ au.codeVerifier # Null
          /\ au.exchangeVerifier = au.codeVerifier

C18_Witness ==
  /\ au.pc = "done"
  /\ au.exchangeVerifier = "v2"
  /\ au.filesBefore["project"].exists


\* C19: in every reachable state each token file that exists holds one
\* complete TokenRecord (never a half-written one) whose access_token and
\* refresh_token come from the same single token-endpoint response.
C19_WholeRecords ==
  \A s \in Scopes :
    files[s].exists
      => /\ files[s].json = "ok"
         /\ files[s].access_token # NoToken
         /\ files[s].refresh_token # NoToken
         /\ files[s].access_token = files[s].response
         /\ files[s].refresh_token = files[s].response

\* Two concurrent calls that refreshed the same record have both ended.
BothFinished ==
  /\ gv.pc \in {"returned", "failed"}
  /\ gx.pc \in {"returned", "failed"}
  /\ gv.refreshSent = 1
  /\ gx.refreshSent = 1

LastWriter == IF gv.saveOrder > gx.saveOrder THEN gv ELSE gx

MostRecentRotation ==
  IF gv.response.refresh_token > gx.response.refresh_token
    THEN gv.response.refresh_token ELSE gx.response.refresh_token

\* C20: two invocations that run getValidAccessToken concurrently on the same
\* near-expiry record send the same refresh token; after both have finished
\* the stored record is in full the record saved by the last writer, and if
\* that is not the provider's most recent rotation its refresh token is one
\* the provider no longer accepts.
C20_LastWriterWins ==
  /\ (gv.refreshSent = 1 /\ gx.refreshSent = 1) => gx.sentRT = gv.sentRT
  /\ (BothFinished /\ LastWriter.saveOrder > 0)
       => /\ files[gv.tokenPath] = LastWriter.pending
          /\ files[gv.tokenPath].refresh_token # MostRecentRotation
               => files[gv.tokenPath].refresh_token \notin validRT

\* C27: a refresh writes the new record to the location the stale record was
\* loaded from (the one findTokenPath gave), leaves the token file at the
\* other location as it was, and the next lookup resolves to the refreshed
\* record.
C27_RefreshSavesInPlace ==
  gv.pc = "returned" /\ gv.refreshSent = 1
    => /\ gv.tokenPath = findTokenPath(gv.filesBefore)
       /\ gv.loaded = gv.filesBefore[gv.tokenPath]
       /\ files[gv.tokenPath] # gv.filesBefore[gv.tokenPath]
       /\ files[gv.tokenPath].refresh_token = gv.response.refresh_token
       /\ \A s \in Scopes \ {gv.tokenPath} : files[s] = gv.filesBefore[s]
       /\ loadToken(files).tokenPath = gv.tokenPath
       /\ loadToken(files).tokenData.access_token = gv.response.access_token

C27_Witness ==
  /\ gv.pc = "returned"
  /\ gv.refreshSent = 1
  /\ gv.tokenPath = "project"
  /\ gv.filesBefore["global"].exists
  /\ files["global"] = gv.filesBefore["global"]

\* C28: a run of performAuth that fails (credentials missing, OAuth error,
\* state mismatch, timeout, token-exchange error, missing refresh token)
\* leaves the token files at both locations as they were when it started.
C28_FailedAuthKeepsRecords ==
  au.pc = "failed"
    => /\ au.failure.name \in {"CredentialsMissing", "OAuthDenied", "CsrfMismatch",
                                "AuthTimeout", "TokenExchangeFailed",
                                "MissingRefreshToken"}
       /\ files = au.filesBefore

C28_Witness ==
  /\ au.pc = "failed"
  /\ au.failure.name = "TokenExchangeFailed"
  /\ au.filesBefore["project"].exists
  /\ au.filesBefore["global"].exists
  /\ files = au.filesBefore

\* C29: every record the program persists, by performAuth or by a refresh,
\* has an access_token and a refresh_token; a token response that lacks one
\* of them is never written.
C29_PersistedRecordsAreComplete ==
  \A s \in Scopes :
    files[s].exists /\ files[s].json = "ok"
      => /\ files[s].access_token # NoToken
         /\ files[s].refresh_token # NoToken

\* C24: checkAuth always returns a status and changes nothing: it reports
\* authenticated with expiresAt exactly when a record is found (project first,
\* then global) whose expires_at is not earlier than now, not authenticated
\* with expiresAt when that record has expired, and not authenticated with an
\* error when no record is found or the file cannot be parsed; it sends no
\* refresh request and writes no file.
C24_CheckAuthReportsOnly ==
  rd.op = "checkAuth"
    => LET fb == rd.filesBefore
           path == findTokenPath(fb)
           readable == path # Null /\ fb[path].json = "ok"
       IN /\ files = fb
          /\ gv.pc = "idle" /\ gx.pc = "idle" /\ gv.refreshSent = 0
          /\ readable
               => /\ rd.failure = Null
                  /\ rd.expiresAt = fb[path].expires_at
                  /\ rd.authenticated <=> fb[path].expires_at >= rd.startedAt
          /\ ~readable
               => /\ ~rd.authenticated
                  /\ rd.failure \in {"NotAuthenticated", "SyntaxError"}
                  /\ rd.failure = "NotAuthenticated" <=> path = Null

C24_Witness ==
  /\ rd.op = "checkAuth"
  /\ rd.authenticated
  /\ rd.tokenPath = "global"
  /\ rd.expiresAt = rd.startedAt
  /\ rd.startedAt > 0

\* A step that starts performAuth and gets past loadCredentials.
AuthStarts == au.pc \notin {"waiting", "exchanging"} /\ au'.pc = "waiting"

\* What one ensureGitignore call makes of the ignore file g: h holds the
\* pattern and all of g; created with the pattern when g is absent, the
\* pattern appended after g's unchanged content when g lacks it, and g itself
\* when g has it; a second call changes nothing.
Ensured(g, h) ==
  /\ h.exists /\ Includes(h.content, PAT)
  /\ ~g.exists => h.content = <<HDR, NL, PAT, NL>>
  /\ (g.exists /\ Includes(g.content, PAT)) => h = g
  /\ (g.exists /\ ~Includes(g.content, PAT))
       => /\ Len(h.content) > Len(g.content)
          /\ SubSeq(h.content, 1, Len(g.content)) = g.content
          /\ SubSeq(h.content, Len(h.content) - 1, Len(h.content)) = <<PAT, NL>>
          /\ h.content[Len(h.content) - 2] = NL
  /\ ensureGitignore(h) = h

\* C22: ensureGitignore leaves the ignore file holding the pattern and all its
\* prior content (created, appended to, or untouched; twice is the same as
\* once); it runs when a project-scoped authorization starts and not for a
\* global one, and nothing else changes the file.
C22_GitignoreEnsured ==
  [][ /\ (AuthStarts /\ ~au'.global) => Ensured(gitignore, gitignore')
      /\ ~(AuthStarts /\ ~au'.global) => gitignore' = gitignore ]_vars

C22_Witness ==
  /\ au.pc = "waiting"
  /\ ~au.global
  /\ gitignore.content = <<"node_modules", NL, NL, HDR, NL, PAT, NL>>

SixGetMeCommands == {"tweets", "lists", "like", "unlike", "retweet", "unretweet"}

\* C21 (as stated): every CLI command performs at most one authenticated
\* pipeline before it exits: one getValidAccessToken call, at most one
\* refresh, one call to an endpoint.
C21_OnePipeline ==
  /\ cli.tokenCalls <= 1
  /\ cli.refreshes <= 1
  /\ cli.requests <= 1

\* C21 (amended): a command performs at most two pipelines, one after the
\* other, each with one getValidAccessToken call, at most one refresh and at
\* most one API request.  Two only for tweets, lists, like, unlike, retweet and
\* unretweet, whose first pipeline asks /users/me; such a command succeeds
\* only after both.  Every other command performs at most one.
C21_AtMostTwoPipelines ==
  /\ cli.tokenCalls <= 2
  /\ cli.refreshes <= cli.tokenCalls
  /\ cli.requests <= cli.tokenCalls
  /\ Len(cli.endpoints) = cli.requests
  /\ gv.refreshSent <= 1
  /\ cli.command \notin SixGetMeCommands => cli.tokenCalls <= 1
  /\ cli.tokenCalls = 2
       => /\ cli.command \in SixGetMeCommands
          /\ cli.endpoints[1] = GetMeEndpoint
  /\ (cli.command \in SixGetMeCommands /\ cli.exit = 0)
       => /\ cli.tokenCalls = 2
          /\ cli.endpoints = <<GetMeEndpoint, cli.command>>
  /\ cli.command \in {"check", UnknownCommand, Null} \cup HelpCommands
       => cli.tokenCalls = 0 /\ cli.requests = 0

C21_Witness ==
  /\ cli.command = "like"
  /\ cli.exit = 0
  /\ cli.tokenCalls = 2
  /\ cli.refreshes = 2
  /\ cli.requests = 2

\* C23: every invocation that names a command ends with exactly one JSON
\* envelope on stdout: the success envelope when the command succeeds, the
\* error envelope with exit status 1 on any error (authentication and API
\* errors, missing arguments, unknown commands); never both.
C23_OneEnvelope ==
  /\ Len(cli.stdout) <= 1
  /\ (cli.pc = "exited" /\ cli.command \notin {Null} \cup HelpCommands)
       => /\ Len(cli.stdout) = 1
          /\ cli.stdout[1].json
          /\ cli.stdout[1].success <=> cli.exit = 0
          /\ ~cli.stdout[1].success <=> cli.exit = 1

Required ==
  [c \in ApiCommands |->
     IF c \in {"list-add", "list-remove"} THEN 2
     ELSE IF c \in {"me", "tweets", "timeline", "lists"} THEN 0
     ELSE 1]

ArgGiven(i) == Len(cli.args) >= i /\ cli.args[i] # ""

\* C30: a command run without one of its required positional arguments
\* prints the usage error envelope and exits with status 1 without loading
\* credentials, reading or refreshing the token, writing a file or sending an
\* API request; with all of them given it does not.
C30_UsageErrorBeforeAnyWork ==
  cli.command \in ApiCommands
    => /\ (\E i \in 1..Required[cli.command] : ~ArgGiven(i))
            => /\ cli.pc = "exited" /\ cli.exit = 1
               /\ cli.stdout = <<Envelope(FALSE, "Usage")>>
               /\ ~cli.credentialsLoaded /\ cli.tokenCalls = 0
               /\ cli.refreshes = 0 /\ cli.requests = 0
               /\ gv.pc = "idle" /\ rd.op = "idle"
               /\ files = cli.filesBefore
       /\ (\A i \in 1..Required[cli.command] : ArgGiven(i))
            => cli.error # "Usage"

C30_Witness ==
  /\ cli.command = "list-add"
  /\ cli.args = <<"x", "">>
  /\ cli.pc = "exited"
  /\ cli.error = "Usage"
  /\ cli.filesBefore["project"].exists

====
